---- MODULE Spec2Model ----
(***************************************************************************)
(* Live tracking simulation of the FleetMap component.                     *)
(*                                                                         *)
(* The component keeps React state (selectedVehicleId, vehicleLocations,   *)
(* activeRoute, isTracking, routeProgress, center) and one ref             *)
(* (trackingIntervalRef).  handleStartTracking posts a route request,      *)
(* awaits the response and then creates an interval timer whose callback   *)
(* closes over its own progress counter, the route and the vehicle id      *)
(* that was selected when the handler was invoked.  Every interval timer   *)
(* ever created is one entry of the sequence "sessions"; its index is the  *)
(* handle setInterval returned.  The fields emitted and puts of an entry    *)
(* record what the timer has done so far.  A timer that is cleared before  *)
(* its completion branch ran leaves only the entry StoppedTimer: the       *)
(* closure of a cleared interval is unreachable and nothing reads it.      *)
(*                                                                         *)
(* JavaScript arrays are 0-based, TLA+ sequences 1-based: the point        *)
(* route.coordinates[p] of the code is route.coordinates[p + 1] here.      *)
(***************************************************************************)
EXTENDS Integers, Sequences, FiniteSets, TLC

\* ---------------------------------------------------------------- bounds
NumVehicles == 2
MaxCalls    == 2
MaxLen      == 3
MaxSessions == 2
MaxRequests == 2

\* ------------------------------------------------------------- constants
NoVehicle   == 0
NoTimer     == 0
InitCenter  == [lat |-> 28, lng |-> 77]

Vehicles    == 1..NumVehicles
\* lengths of the paths the backend answers with: the shortest and the longest
PathLengths == {2, MaxLen}

\* vehicle.current_location of the vehicles prop
HomeLoc(v) == [lat |-> 28, lng |-> 77 + v]

\* longitude and latitude of the i-th point of a route
RouteLng(i) == 70 + i
RouteLat(i) == 20 + i

\* one RoutePlan as serialised by the backend: coordinates are [lng, lat]
Route(L) ==
  [ route_type  |-> "fastest",
    coordinates |-> [i \in 1..L |-> <<RouteLng(i), RouteLat(i)>>],
    distance    |-> L,
    duration    |-> 10 * L,
    tolls       |-> << [amount |-> 5 * L] >> ]

NullRoute ==
  [ route_type |-> "null", coordinates |-> <<>>, distance |-> 0, duration |-> 0,
    tolls |-> <<>> ]

VARIABLES
  selectedVehicleId,    \* useState(null)
  vehicleLocations,     \* useState({}) after the initialising effect
  activeRoute,          \* useState(null)
  isTracking,           \* useState(false)
  routeProgress,        \* useState(0)
  center,               \* useState([28.6139, 77.2090])
  trackingIntervalRef,  \* useRef(null): handle of a timer, or NoTimer
  sessions,             \* every interval timer created so far, by handle
  pending,              \* route requests in flight, per captured vehicle id
  putRejected,          \* some location PUT has been rejected (.catch has run)
  afterStop,            \* handleStopTracking was the last handler to run
  startFailed,          \* the catch of handleStartTracking was the last to run
  mounted,              \* the FleetMap component is mounted
  \* RoutePlanner
  isLoading,            \* useState(false)
  isGeocoding,          \* useState(false)
  routes,               \* useState(null): <<>> or the RoutePlans of a response
  selectedRoute,        \* useState(null)
  formData,             \* useState({vehicle_id, start_address, ...})
  calls,                \* handleCalculate invocations suspended at an await
  toast,                \* the last toast the planner has shown
  routesFor,            \* the request that the response held in routes answered
  \* App, Login, Dashboard
  token,                \* useState(localStorage.getItem('token'))
  path,                 \* location.pathname of the BrowserRouter
  localStorage,         \* the browser's localStorage: a set of <<key, value>>
  tokenEffect,          \* useEffect(..., [token]) is scheduled and has not run
  authRequests,         \* POST /auth/login or /auth/register in flight
  userFetches,          \* GET /auth/me in flight
  notice                \* the last toast Login or Dashboard has shown

\* the state of the FleetMap component
fleetVars == << selectedVehicleId, vehicleLocations, activeRoute, isTracking,
                routeProgress, center, trackingIntervalRef, sessions, pending,
                putRejected, afterStop, startFailed, mounted >>

\* the state of the RoutePlanner component
plannerVars == << isLoading, isGeocoding, routes, selectedRoute, formData,
                  calls, toast, routesFor >>

\* the state of App and of its pages
appVars == << token, path, localStorage, tokenEffect, authRequests,
              userFetches, notice >>

vars == << fleetVars, plannerVars, appVars >>

\* the state the tracking handlers own
trackingState == << isTracking, trackingIntervalRef, activeRoute,
                    routeProgress, vehicleLocations, sessions >>

\* the same state as one value
TrackingRecord ==
  [ isTracking          |-> isTracking,
    trackingIntervalRef |-> trackingIntervalRef,
    activeRoute         |-> activeRoute,
    routeProgress       |-> routeProgress,
    vehicleLocations    |-> vehicleLocations,
    sessions            |-> sessions ]

SessionIds == DOMAIN sessions

PathLen(s) == Len(sessions[s].route.coordinates)

RECURSIVE SumPending(_, _)
SumPending(p, n) == IF n = 0 THEN 0 ELSE p[n] + SumPending(p, n - 1)

\* requests and timers the model still has room for
Budget == Len(sessions) + SumPending(pending, NumVehicles) < MaxSessions

\* ------------------------------------------------------- helper operators

\* what is left of a timer that was cleared before its completion branch ran
StoppedTimer ==
  [ vid |-> NoVehicle, route |-> NullRoute, progress |-> 0, pos |-> 0,
    live |-> FALSE, status |-> "Stopped", emitted |-> <<>>, puts |-> <<>> ]

\* clearInterval(handle): cancels that timer; clearInterval(null) does nothing
ClearInterval(ss, h) ==
  IF h \in DOMAIN ss
    THEN [ss EXCEPT ![h] = IF @.status = "Completed"
                             THEN [@ EXCEPT !.live = FALSE]
                             ELSE StoppedTimer]
    ELSE ss

\* progress += 1
TickProgressBack(p) == p - 1
TickProgressSkip(p) == p + 2
TickProgress(p) == p + 1

\* if (progress > route.coordinates.length - 1)
ReachedEndEarly(p, route) == p >= Len(route.coordinates) - 1
ReachedEnd(p, route) == p > Len(route.coordinates) - 1

\* const newLoc = { lat: coord[1], lng: coord[0] }
NewLocSwapped(coord) == [lat |-> coord[1], lng |-> coord[2]]
NewLoc(coord) == [lat |-> coord[2], lng |-> coord[1]]

\* setInterval(...) with "let progress = 0" and the closure's captures
NewSessionShifted(v, route) ==
  [ vid      |-> v,
    route    |-> [route EXCEPT !.coordinates = Tail(@)],
    progress |-> 0,
    pos      |-> 0,
    live     |-> TRUE,
    status   |-> "Active",
    emitted  |-> <<>>,
    puts     |-> <<>> ]

NewSession(v, route) ==
  [ vid      |-> v,
    route    |-> route,
    progress |-> 0,        \* the closure's counter
    pos      |-> 0,        \* last index read from the path and published
    live     |-> TRUE,     \* the timer has not been cleared
    status   |-> "Active", \* "Completed" once the completion branch has run
    emitted  |-> <<>>,     \* locations passed to setVehicleLocations
    puts     |-> <<>> ]    \* indices for which axios.put was called

\* .catch(() => {}) of the location PUT of timer s for index i: its effect on
\* the timers and on the PUTs they have sent
PutCatchAbort(ss, s, i) == ClearInterval(ss, s)
PutCatchRetry(ss, s, i) == [ss EXCEPT ![s].puts = Append(@, i)]
PutCatch(ss, s, i) == ss

\* ------------------------------------------------ route generation engine
\* The backend behind POST /routes/calculate, after sections 3 and 4 of the
\* specification.  Money is counted in hundredths of a currency unit, fuel
\* in millilitres, so that rounding to 2 decimals is integer arithmetic.

FuelTypes == {"petrol", "diesel", "electric", "hybrid"}

RouteTypes == << "fastest", "economy", "scenic" >>

\* consumption_rate(fuel_type), in millilitres per km
ConsumptionRate(fuel) ==
  CASE fuel = "petrol"   -> 83
    [] fuel = "diesel"   -> 67
    [] fuel = "electric" -> 21
    [] OTHER             -> 45

\* unit_price(fuel_type), in hundredths per litre
UnitPrice(fuel) ==
  CASE fuel = "petrol"   -> 9672
    [] fuel = "diesel"   -> 8962
    [] fuel = "electric" -> 815
    [] OTHER             -> 9672

Abs(x) == IF x < 0 THEN -x ELSE x

\* distance_km of the path of one profile: scenic takes a detour
PlanDistance(start, end, type) ==
  10 * (Abs(start.lat - end.lat) + Abs(start.lng - end.lng))
    + (CASE type = "fastest" -> 0 [] type = "economy" -> 2 [] OTHER -> 5)

\* profile-specific average speed, km/h: fastest > economy >= scenic
AverageSpeed(type) ==
  CASE type = "fastest" -> 60 [] type = "economy" -> 50 [] OTHER -> 40

\* the path of one profile, as [lng, lat] pairs, first = start, last = end
PlanPath(start, end, type) ==
  IF type = "scenic"
    THEN << <<start.lng, start.lat>>, <<start.lng, end.lat>>, <<end.lng, end.lat>> >>
    ELSE << <<start.lng, start.lat>>, <<end.lng, end.lat>> >>

\* locateTolls(path): fastest may cross more toll points, economy avoids them
LocateTolls(type) ==
  CASE type = "fastest" -> << [name |-> "T1", amount |-> 6550],
                              [name |-> "T2", amount |-> 4025] >>
    [] type = "economy" -> << >>
    [] OTHER            -> << [name |-> "T1", amount |-> 6550] >>

RECURSIVE SumTolls(_)
SumTolls(tolls) ==
  IF tolls = << >> THEN 0 ELSE Head(tolls).amount + SumTolls(Tail(tolls))

\* round to 2 decimals, halves up: thousandths of a hundredth to hundredths
Round2Down(x) == x \div 1000
Round2(x) == (x + 500) \div 1000

\* estimateCost(distance_km, duration_min, fuel_type, tolls)
EstimateCost(distance, duration, fuel, tolls) ==
  LET consumption == distance * ConsumptionRate(fuel)
  IN  [ fuel_consumption |-> consumption,
        estimated_cost   |-> Round2(consumption * UnitPrice(fuel)
                                      + 1000 * SumTolls(tolls)) ]

\* one RoutePlan in its wire representation
RoutePlan(start, end, fuel, type) ==
  LET distance == PlanDistance(start, end, type)
      duration == (distance * 60) \div AverageSpeed(type)
      tolls    == LocateTolls(type)
      cost     == EstimateCost(distance, duration, fuel, tolls)
  IN  [ route_type       |-> type,
        coordinates      |-> PlanPath(start, end, type),
        distance         |-> distance,
        duration         |-> duration,
        fuel_consumption |-> cost.fuel_consumption,
        tolls            |-> tolls,
        estimated_cost   |-> cost.estimated_cost ]

\* calculateRoutes(start, end, fuel_type) for start # end
CalculateRoutesTwo(start, end, fuel) ==
  [i \in 1..2 |-> RoutePlan(start, end, fuel, RouteTypes[i])]

CalculateRoutes(start, end, fuel) ==
  [i \in 1..3 |-> RoutePlan(start, end, fuel, RouteTypes[i])]

\* ------------------------------------------------------- the RoutePlanner
\* what can be typed into the two address fields
Addresses == {"", " ", "Connaught Place", "India Gate", "Nowhere"}

\* String.prototype.trim
Trim(a) == IF a = " " THEN "" ELSE a

\* start_coords: null
NoCoords == [lat |-> 0, lng |-> 0, display_name |-> "null"]

\* what Nominatim finds for an address: the first result, or nothing
Geocode(a) ==
  CASE a = "Connaught Place" -> [lat |-> 28, lng |-> 77, display_name |-> a]
    [] a = "India Gate"      -> [lat |-> 29, lng |-> 79, display_name |-> a]
    [] OTHER                 -> NoCoords

\* vehicle.fuel_type of the vehicles prop
FuelType(v) ==
  CASE v = 1 -> "petrol" [] v = 2 -> "diesel" [] v = 3 -> "electric"
    [] OTHER -> "hybrid"

\* selectedRoute: null
NoPlan ==
  [ route_type |-> "null", coordinates |-> << >>, distance |-> 0,
    duration |-> 0, fuel_consumption |-> 0, tolls |-> << >>,
    estimated_cost |-> 0 ]

\* no response received yet
NoRequest == [start |-> NoCoords, end |-> NoCoords, fuel |-> "null"]

\* { lat: startGeocode.lat, lng: startGeocode.lng }
LatLng(c) == [lat |-> c.lat, lng |-> c.lng]

PlannerInit ==
  /\ isLoading = FALSE
  /\ isGeocoding = FALSE
  /\ routes = << >>
  /\ selectedRoute = NoPlan
  /\ formData = [ vehicle_id    |-> NoVehicle,
                  start_address |-> "Connaught Place",
                  end_address   |-> "India Gate",
                  start_coords  |-> NoCoords,
                  end_coords    |-> NoCoords ]
  /\ calls = << >>
  /\ toast = "none"
  /\ routesFor = NoRequest

\* ---------------------------------------------------------------- the App
\* null
Null == "null"

\* the tokens the backend issues
Tokens == {"t1", "t2"}

\* the paths a user can visit
Paths == {"/", "/login", "/dashboard", "/other"}

\* the truthiness of a string or null: token ? a : b
Truthy(t) == t # Null /\ t # ""

\* localStorage.getItem(key): the value stored under key, or null
GetItem(ls, key) ==
  IF \E p \in ls : p[1] = key
    THEN (CHOOSE p \in ls : p[1] = key)[2]
    ELSE Null

\* localStorage.setItem(key, value)
SetItem(ls, key, value) == {p \in ls : p[1] # key} \cup {<< key, value >>}

\* localStorage.removeItem(key)
RemoveItem(ls, key) == {p \in ls : p[1] # key}

\* what <Routes> renders for a token at a path: a page, or a <Navigate>
ElementUnguarded(tok, p) ==
  CASE p = "/login"     -> [kind |-> "page", name |-> "Login"]
    [] p = "/dashboard" -> [kind |-> "page", name |-> "Dashboard"]
    [] p = "/"          -> [kind |-> "navigate",
                            name |-> IF Truthy(tok) THEN "/dashboard" ELSE "/login"]
    [] OTHER            -> [kind |-> "page", name |-> "none"]

Element(tok, p) ==
  CASE p = "/login" ->
         IF Truthy(tok) THEN [kind |-> "navigate", name |-> "/dashboard"]
                        ELSE [kind |-> "page", name |-> "Login"]
    [] p = "/dashboard" ->
         IF Truthy(tok) THEN [kind |-> "page", name |-> "Dashboard"]
                        ELSE [kind |-> "navigate", name |-> "/login"]
    [] p = "/" ->
         [kind |-> "navigate",
          name |-> IF Truthy(tok) THEN "/dashboard" ELSE "/login"]
    [] OTHER -> [kind |-> "page", name |-> "none"]

\* the page on screen
Page == LET e == Element(token, path)
        IN  IF e.kind = "page" THEN e.name ELSE "none"

AppInit ==
  /\ localStorage = {}
  /\ token = GetItem(localStorage, "token")
  /\ path = "/"
  /\ tokenEffect = TRUE
  /\ authRequests = 0
  /\ userFetches = 0
  /\ notice = "none"

\* ------------------------------------------------------------------- Init
Init ==
  /\ selectedVehicleId = NoVehicle
  /\ vehicleLocations = [v \in Vehicles |-> HomeLoc(v)]
  /\ activeRoute = NullRoute
  /\ isTracking = FALSE
  /\ routeProgress = 0
  /\ center = InitCenter
  /\ trackingIntervalRef = NoTimer
  /\ sessions = <<>>
  /\ pending = [v \in Vehicles |-> 0]
  /\ putRejected = FALSE
  /\ afterStop = FALSE
  /\ startFailed = FALSE
  /\ mounted = TRUE
  /\ PlannerInit
  /\ AppInit

\* ---------------------------------------------------------------- actions

\* handleVehicleSelect(vehicleId)
handleVehicleSelectKeepTimer(v) ==
  /\ selectedVehicleId' = v
  /\ isTracking' = FALSE
  /\ activeRoute' = NullRoute
  /\ routeProgress' = 0
  /\ sessions' = sessions
  /\ trackingIntervalRef' = NoTimer
  /\ center' = IF v \in DOMAIN vehicleLocations
                 THEN vehicleLocations[v] ELSE center
  /\ afterStop' = FALSE
  /\ startFailed' = FALSE
  /\ UNCHANGED << vehicleLocations, pending, putRejected >>
  /\ UNCHANGED << mounted, plannerVars, appVars >>

handleVehicleSelect(v) ==
  /\ selectedVehicleId' = v
  /\ isTracking' = FALSE
  /\ activeRoute' = NullRoute
  /\ routeProgress' = 0
  /\ sessions' = ClearInterval(sessions, trackingIntervalRef)
  /\ trackingIntervalRef' = NoTimer
  /\ center' = IF v \in DOMAIN vehicleLocations
                 THEN vehicleLocations[v] ELSE center
  /\ afterStop' = FALSE
  /\ startFailed' = FALSE
  /\ UNCHANGED << vehicleLocations, pending, putRejected >>
  /\ UNCHANGED << mounted, plannerVars, appVars >>

\* handleStartTracking up to "await axios.post(...)": without a vehicle it
\* shows a toast and returns
handleStartTracking ==
  /\ IF selectedVehicleId = NoVehicle
       THEN UNCHANGED pending
       ELSE /\ Budget
            /\ pending' = [pending EXCEPT ![selectedVehicleId] = @ + 1]
  /\ afterStop' = FALSE
  /\ startFailed' = FALSE
  /\ UNCHANGED << selectedVehicleId, vehicleLocations, activeRoute, isTracking,
                  routeProgress, center, trackingIntervalRef, sessions,
                  putRejected >>
  /\ UNCHANGED << mounted, plannerVars, appVars >>

\* the orders in which a response can list its three RoutePlans
Orders == {p \in [1..3 -> 1..3] : \A i, j \in 1..3 : p[i] = p[j] => i = j}

\* response.data: the three RoutePlans of a request, each of L points, listed
\* in the given order
ResponseData(L, order) ==
  [i \in 1..3 |-> [Route(L) EXCEPT !.route_type = RouteTypes[order[i]]]]

\* const route = response.data[0]
FirstRoute(data) == data[1]

\* handleStartTracking after the await, the request having succeeded with
\* response.data = data; v is the vehicle id the closure captured
StartTimer(v, data) ==
  /\ pending[v] > 0
  /\ pending' = [pending EXCEPT ![v] = @ - 1]
  /\ activeRoute' = FirstRoute(data)
  /\ isTracking' = TRUE
  /\ routeProgress' = 0
  /\ sessions' = Append(sessions, NewSession(v, FirstRoute(data)))
  /\ trackingIntervalRef' = Len(sessions) + 1
  /\ afterStop' = FALSE
  /\ startFailed' = FALSE
  /\ UNCHANGED << selectedVehicleId, vehicleLocations, center, putRejected >>
  /\ UNCHANGED << mounted, plannerVars, appVars >>

\* the response lists the RoutePlans fastest, economy, scenic, of L points
RouteResponse(v, L) == StartTimer(v, ResponseData(L, << 1, 2, 3 >>))

\* the response lists the RoutePlans in some other order
RouteResponseReordered(v, L, order) ==
  /\ order # << 1, 2, 3 >>
  /\ StartTimer(v, ResponseData(L, order))

\* handleStartTracking after the await, the request having failed
RouteFailureTracking(v) ==
  /\ pending[v] > 0
  /\ pending' = [pending EXCEPT ![v] = @ - 1]
  /\ isTracking' = TRUE
  /\ afterStop' = FALSE
  /\ startFailed' = TRUE
  /\ UNCHANGED << selectedVehicleId, vehicleLocations, activeRoute,
                  routeProgress, center, trackingIntervalRef, sessions,
                  putRejected >>
  /\ UNCHANGED << mounted, plannerVars, appVars >>

RouteFailure(v) ==
  /\ pending[v] > 0
  /\ pending' = [pending EXCEPT ![v] = @ - 1]
  /\ afterStop' = FALSE
  /\ startFailed' = TRUE
  /\ UNCHANGED << selectedVehicleId, vehicleLocations, activeRoute, isTracking,
                  routeProgress, center, trackingIntervalRef, sessions,
                  putRejected >>
  /\ UNCHANGED << mounted, plannerVars, appVars >>

\* one firing of the interval callback of timer s
Tick(s) ==
  /\ s \in SessionIds
  /\ sessions[s].live
  /\ sessions[s].progress < MaxLen
  /\ LET sess  == sessions[s]
         p     == TickProgress(sess.progress)
         route == sess.route
     IN  IF ReachedEnd(p, route)
         THEN /\ sessions' = ClearInterval([sessions EXCEPT
                                              ![s].progress = p,
                                              ![s].status = "Completed"],
                                           trackingIntervalRef)
              /\ trackingIntervalRef' = NoTimer
              /\ isTracking' = FALSE
              /\ UNCHANGED << vehicleLocations, center, routeProgress >>
         ELSE IF (p + 1) \notin DOMAIN route.coordinates
         THEN \* coord is undefined and coord[1] throws in the callback
              /\ sessions' = [sessions EXCEPT ![s].progress = p]
              /\ UNCHANGED << trackingIntervalRef, isTracking,
                              vehicleLocations, center, routeProgress >>
         ELSE LET newLoc == NewLoc(route.coordinates[p + 1])
              IN  /\ vehicleLocations' =
                       [vehicleLocations EXCEPT ![sess.vid] = newLoc]
                  /\ center' = newLoc
                  /\ routeProgress' = p
                  /\ sessions' = [sessions EXCEPT
                                    ![s].progress = p,
                                    ![s].pos = p,
                                    ![s].emitted = Append(@, newLoc),
                                    ![s].puts = Append(@, p)]
                  /\ UNCHANGED << trackingIntervalRef, isTracking >>
  /\ afterStop' = FALSE
  /\ startFailed' = FALSE
  /\ UNCHANGED << selectedVehicleId, activeRoute, pending, putRejected >>
  /\ UNCHANGED << mounted, plannerVars, appVars >>

\* handleStopTracking, as a function of the tracking state
StopTrackingToggle(ts) ==
  [ts EXCEPT !.sessions = ClearInterval(ts.sessions, ts.trackingIntervalRef),
             !.trackingIntervalRef = NoTimer,
             !.isTracking = ~ts.isTracking]

StopTracking(ts) ==
  [ts EXCEPT !.sessions = ClearInterval(ts.sessions, ts.trackingIntervalRef),
             !.trackingIntervalRef = NoTimer,
             !.isTracking = FALSE]

\* handleStopTracking
handleStopTracking ==
  /\ LET after == StopTracking(TrackingRecord)
     IN  /\ sessions' = after.sessions
         /\ trackingIntervalRef' = after.trackingIntervalRef
         /\ isTracking' = after.isTracking
         /\ activeRoute' = after.activeRoute
         /\ routeProgress' = after.routeProgress
         /\ vehicleLocations' = after.vehicleLocations
  /\ afterStop' = TRUE
  /\ startFailed' = FALSE
  /\ UNCHANGED << selectedVehicleId, center, pending, putRejected >>
  /\ UNCHANGED << mounted, plannerVars, appVars >>

\* the location PUT that timer s sent for index i is rejected and
\* .catch(() => {}) runs; a PUT that is acknowledged runs no code of the
\* component (there is no .then).  A rejection that changes neither
\* putRejected nor a timer is no step at all.
PutFail(s, i) ==
  /\ s \in SessionIds
  /\ \E k \in DOMAIN sessions[s].puts : sessions[s].puts[k] = i
  /\ ~putRejected \/ PutCatch(sessions, s, i) # sessions
  /\ putRejected' = TRUE
  /\ sessions' = PutCatch(sessions, s, i)
  /\ UNCHANGED << selectedVehicleId, vehicleLocations, activeRoute, isTracking,
                  routeProgress, center, trackingIntervalRef, pending,
                  afterStop, startFailed >>
  /\ UNCHANGED << mounted, plannerVars, appVars >>

\* handleRefreshLocation
handleRefreshLocation ==
  /\ selectedVehicleId # NoVehicle
  /\ selectedVehicleId \in DOMAIN vehicleLocations
  /\ center' = vehicleLocations[selectedVehicleId]
  /\ afterStop' = FALSE
  /\ startFailed' = FALSE
  /\ UNCHANGED << selectedVehicleId, vehicleLocations, activeRoute, isTracking,
                  routeProgress, trackingIntervalRef, sessions, pending,
                  putRejected >>
  /\ UNCHANGED << mounted, plannerVars, appVars >>

\* useEffect(..., [vehicles]): the parent passes a newly fetched vehicles list
\* and the effect rebuilds every entry of vehicleLocations from
\* vehicle.current_location, which the backend holds: for each vehicle either
\* the location of the first list or the location last PUT for it
VehiclesRefresh(stored) ==
  /\ vehicleLocations' =
       [v \in Vehicles |-> IF stored[v] THEN vehicleLocations[v] ELSE HomeLoc(v)]
  /\ afterStop' = FALSE
  /\ startFailed' = FALSE
  /\ UNCHANGED << selectedVehicleId, activeRoute, isTracking, routeProgress,
                  center, trackingIntervalRef, sessions, pending, putRejected >>
  /\ UNCHANGED << mounted, plannerVars, appVars >>

\* the cleanup of useEffect(..., []): the component is unmounted (the user
\* leaves the map tab or logs out).  The ref keeps its handle; requests in
\* flight and live timers go on running, and what their closures set on the
\* unmounted component is rendered nowhere.
Unmount ==
  /\ mounted
  /\ mounted' = FALSE
  /\ sessions' = ClearInterval(sessions, trackingIntervalRef)
  /\ afterStop' = FALSE
  /\ startFailed' = FALSE
  /\ UNCHANGED << selectedVehicleId, vehicleLocations, activeRoute, isTracking,
                  routeProgress, center, trackingIntervalRef, pending,
                  putRejected >>
  /\ UNCHANGED << plannerVars, appVars >>

\* ------------------------------------------------- the rendered component
\* the controls are there while the component is mounted
\* <Select onValueChange={handleVehicleSelect}>
SelectVehicle(v) == mounted /\ handleVehicleSelect(v)

\* "Start Tracking" is rendered while !isTracking, disabled without a vehicle
ClickStart ==
  /\ mounted
  /\ isTracking = FALSE
  /\ selectedVehicleId # NoVehicle
  /\ handleStartTracking

\* "Stop Tracking" is rendered while isTracking
ClickStop == mounted /\ isTracking = TRUE /\ handleStopTracking

Background ==
  \/ \E v \in Vehicles : \E L \in PathLengths : RouteResponse(v, L)
  \/ \E v \in Vehicles : RouteFailure(v)
  \/ \E s \in 1..MaxSessions : Tick(s)
  \/ \E s \in 1..MaxSessions : \E i \in 1..MaxLen : PutFail(s, i)

Next ==
  \/ \E v \in Vehicles : SelectVehicle(v)
  \/ ClickStart
  \/ ClickStop
  \/ Background

Spec == Init /\ [][Next]_vars

\* setInterval fires the callback of a timer again and again until the timer
\* is cleared
TimersKeepFiring == \A s \in 1..MaxSessions : WF_vars(Tick(s))

SpecFair == Init /\ [][Next]_vars /\ TimersKeepFiring

\* the component with its refresh events: the "refresh location" button, and
\* the parent passing a newly fetched vehicles list
NextRefresh ==
  \/ Next
  \/ handleRefreshLocation
  \/ \E stored \in [Vehicles -> BOOLEAN] : VehiclesRefresh(stored)

SpecRefresh == Init /\ [][NextRefresh]_vars

\* the component with its unmounting
NextUnmount ==
  \/ Next
  \/ Unmount

SpecUnmount == Init /\ [][NextUnmount]_vars

\* the component with a backend that may list the RoutePlans of a response
\* in any order
NextAnyOrder ==
  \/ Next
  \/ \E v \in Vehicles : \E L \in PathLengths : \E order \in Orders :
        RouteResponseReordered(v, L, order)

SpecAnyOrder == Init /\ [][NextAnyOrder]_vars

\* ---------------------------------------------------- RoutePlanner actions
\* the sequence q without its c-th element
Without(q, c) == SubSeq(q, 1, c - 1) \o SubSeq(q, c + 1, Len(q))

\* the form fields
SetVehicle(v) ==
  /\ formData' = [formData EXCEPT !.vehicle_id = v]
  /\ UNCHANGED << isLoading, isGeocoding, routes, selectedRoute, calls, toast,
                  routesFor >>
  /\ UNCHANGED << fleetVars, appVars >>

SetStartAddress(a) ==
  /\ formData' = [formData EXCEPT !.start_address = a]
  /\ UNCHANGED << isLoading, isGeocoding, routes, selectedRoute, calls, toast,
                  routesFor >>
  /\ UNCHANGED << fleetVars, appVars >>

SetEndAddress(a) ==
  /\ formData' = [formData EXCEPT !.end_address = a]
  /\ UNCHANGED << isLoading, isGeocoding, routes, selectedRoute, calls, toast,
                  routesFor >>
  /\ UNCHANGED << fleetVars, appVars >>

\* handleCalculate up to "await Promise.all([...])"
handleCalculate ==
  /\ IF formData.vehicle_id = NoVehicle
       THEN /\ toast' = "Please select a vehicle"
            /\ UNCHANGED << isLoading, isGeocoding, calls >>
       ELSE IF Trim(formData.start_address) = "" \/ Trim(formData.end_address) = ""
       THEN /\ toast' = "Please enter both start and end locations"
            /\ UNCHANGED << isLoading, isGeocoding, calls >>
       ELSE /\ Len(calls) < MaxCalls
            /\ isLoading' = TRUE
            /\ isGeocoding' = TRUE
            /\ toast' = "Finding locations..."
            /\ calls' = Append(calls, [ phase         |-> "geocoding",
                                        vehicle_id    |-> formData.vehicle_id,
                                        start_address |-> formData.start_address,
                                        end_address   |-> formData.end_address,
                                        start         |-> NoCoords,
                                        end           |-> NoCoords ])
  /\ UNCHANGED << routes, selectedRoute, formData, routesFor >>
  /\ UNCHANGED << fleetVars, appVars >>

\* both geocodeAddress calls of invocation c have returned a location
GeocodeResolved(c) ==
  /\ c \in DOMAIN calls
  /\ calls[c].phase = "geocoding"
  /\ LET startGeocode == Geocode(calls[c].start_address)
         endGeocode   == Geocode(calls[c].end_address)
     IN  /\ startGeocode # NoCoords
         /\ endGeocode # NoCoords
         /\ formData' = [formData EXCEPT !.start_coords = startGeocode,
                                         !.end_coords = endGeocode]
         /\ calls' = [calls EXCEPT ![c].phase = "calculating",
                                   ![c].start = LatLng(startGeocode),
                                   ![c].end = LatLng(endGeocode)]
  /\ isGeocoding' = FALSE
  /\ toast' = "Locations found! Calculating routes..."
  /\ UNCHANGED << isLoading, routes, selectedRoute, routesFor >>
  /\ UNCHANGED << fleetVars, appVars >>

\* one of the geocodeAddress calls of invocation c has thrown (no result for
\* the address, or the request failed): catch, then finally
GeocodeRejectedClearing(c) ==
  /\ c \in DOMAIN calls
  /\ calls[c].phase = "geocoding"
  /\ toast' = "Could not find one or more locations"
  /\ isLoading' = FALSE
  /\ isGeocoding' = FALSE
  /\ calls' = Without(calls, c)
  /\ routes' = << >>
  /\ selectedRoute' = NoPlan
  /\ UNCHANGED << formData, routesFor >>
  /\ UNCHANGED << fleetVars, appVars >>

GeocodeRejected(c) ==
  /\ c \in DOMAIN calls
  /\ calls[c].phase = "geocoding"
  /\ toast' = "Could not find one or more locations"
  /\ isLoading' = FALSE
  /\ isGeocoding' = FALSE
  /\ calls' = Without(calls, c)
  /\ UNCHANGED << routes, selectedRoute, formData, routesFor >>
  /\ UNCHANGED << fleetVars, appVars >>

\* the route calculation of invocation c has answered: the rest of try, then
\* finally
CalculateResolved(c) ==
  /\ c \in DOMAIN calls
  /\ calls[c].phase = "calculating"
  /\ calls[c].start # calls[c].end
  /\ LET fuel == FuelType(calls[c].vehicle_id)
         data == CalculateRoutes(calls[c].start, calls[c].end, fuel)
     IN  /\ routes' = data
         /\ selectedRoute' = data[1]
         /\ routesFor' = [start |-> calls[c].start, end |-> calls[c].end,
                          fuel |-> fuel]
  /\ toast' = "Routes calculated successfully"
  /\ isLoading' = FALSE
  /\ isGeocoding' = FALSE
  /\ calls' = Without(calls, c)
  /\ UNCHANGED formData
  /\ UNCHANGED << fleetVars, appVars >>

\* the route calculation of invocation c has failed: catch, then finally
CalculateRejectedNoFinally(c) ==
  /\ c \in DOMAIN calls
  /\ calls[c].phase = "calculating"
  /\ toast' = "Failed to calculate routes"
  /\ calls' = Without(calls, c)
  /\ UNCHANGED << isLoading, isGeocoding, routes, selectedRoute, formData,
                  routesFor >>
  /\ UNCHANGED << fleetVars, appVars >>

CalculateRejected(c) ==
  /\ c \in DOMAIN calls
  /\ calls[c].phase = "calculating"
  /\ toast' = "Failed to calculate routes"
  /\ isLoading' = FALSE
  /\ isGeocoding' = FALSE
  /\ calls' = Without(calls, c)
  /\ UNCHANGED << routes, selectedRoute, formData, routesFor >>
  /\ UNCHANGED << fleetVars, appVars >>

\* the route cards are rendered
RoutesShown ==
  /\ routes # << >>
  /\ formData.start_coords # NoCoords
  /\ formData.end_coords # NoCoords

\* onClick={() => setSelectedRoute(route)} of the i-th route card
SelectRoute(i) ==
  /\ RoutesShown
  /\ i \in DOMAIN routes
  /\ selectedRoute' = routes[i]
  /\ UNCHANGED << isLoading, isGeocoding, routes, formData, calls, toast,
                  routesFor >>
  /\ UNCHANGED << fleetVars, appVars >>

\* the submit button is disabled while isLoading or without vehicles
SubmitCalculate == isLoading = FALSE /\ handleCalculate

NextPlanner ==
  \/ \E v \in Vehicles : SetVehicle(v)
  \/ \E a \in Addresses : SetStartAddress(a)
  \/ \E a \in Addresses : SetEndAddress(a)
  \/ SubmitCalculate
  \/ \E c \in 1..MaxCalls : GeocodeResolved(c)
  \/ \E c \in 1..MaxCalls : GeocodeRejected(c)
  \/ \E c \in 1..MaxCalls : CalculateResolved(c)
  \/ \E c \in 1..MaxCalls : CalculateRejected(c)
  \/ \E i \in 1..3 : SelectRoute(i)

SpecPlanner == Init /\ [][NextPlanner]_vars

\* -------------------------------------------------------------- App actions
\* App renders with token tok at path p: the effect of [token] is scheduled
\* when the token has changed, and a Dashboard that gets mounted calls
\* fetchUser
Render(tok, p) ==
  /\ token' = tok
  /\ path' = p
  /\ tokenEffect' = (tokenEffect \/ tok # token)
  /\ IF Element(tok, p).name = "Dashboard" /\ Page # "Dashboard"
       THEN /\ userFetches < MaxRequests
            /\ userFetches' = userFetches + 1
       ELSE UNCHANGED userFetches

\* the user moves to another path within the application
Visit(p) ==
  /\ p # path
  /\ Render(token, p)
  /\ UNCHANGED << localStorage, authRequests, notice >>
  /\ UNCHANGED << fleetVars, plannerVars >>

\* <Navigate to=... /> has been rendered and navigates
Redirect ==
  /\ Element(token, path).kind = "navigate"
  /\ Render(token, Element(token, path).name)
  /\ UNCHANGED << localStorage, authRequests, notice >>
  /\ UNCHANGED << fleetVars, plannerVars >>

\* Login.handleLogin or Login.handleRegister up to "await axios.post(...)"
handleLogin ==
  /\ Page = "Login"
  /\ authRequests < MaxRequests
  /\ authRequests' = authRequests + 1
  /\ UNCHANGED << token, path, localStorage, tokenEffect, userFetches, notice >>
  /\ UNCHANGED << fleetVars, plannerVars >>

\* the request has answered with response.data.token = t: setToken(t)
LoginResolved(t) ==
  /\ authRequests > 0
  /\ authRequests' = authRequests - 1
  /\ Render(t, path)
  /\ notice' = "Login successful!"
  /\ UNCHANGED localStorage
  /\ UNCHANGED << fleetVars, plannerVars >>

\* the request has failed
LoginRejected ==
  /\ authRequests > 0
  /\ authRequests' = authRequests - 1
  /\ notice' = "Login failed"
  /\ UNCHANGED << token, path, localStorage, tokenEffect, userFetches >>
  /\ UNCHANGED << fleetVars, plannerVars >>

\* Dashboard.handleLogout
handleLogout ==
  /\ Page = "Dashboard"
  /\ Render(Null, path)
  /\ notice' = "Logged out successfully"
  /\ UNCHANGED << localStorage, authRequests >>
  /\ UNCHANGED << fleetVars, plannerVars >>

\* Dashboard.fetchUser: GET /auth/me has answered
FetchUserResolved ==
  /\ userFetches > 0
  /\ userFetches' = userFetches - 1
  /\ UNCHANGED << token, path, localStorage, tokenEffect, authRequests, notice >>
  /\ UNCHANGED << fleetVars, plannerVars >>

\* Dashboard.fetchUser: GET /auth/me has failed: setToken(null)
FetchUserRejected ==
  /\ userFetches > 0
  /\ userFetches' = userFetches - 1
  /\ token' = Null
  /\ tokenEffect' = (tokenEffect \/ token # Null)
  /\ notice' = "Failed to fetch user data"
  /\ UNCHANGED << path, localStorage, authRequests >>
  /\ UNCHANGED << fleetVars, plannerVars >>

\* the effect of [token]
TokenEffectNoRemove ==
  /\ tokenEffect
  /\ tokenEffect' = FALSE
  /\ localStorage' = IF Truthy(token)
                        THEN SetItem(localStorage, "token", token)
                        ELSE localStorage
  /\ UNCHANGED << token, path, authRequests, userFetches, notice >>
  /\ UNCHANGED << fleetVars, plannerVars >>

TokenEffect ==
  /\ tokenEffect
  /\ tokenEffect' = FALSE
  /\ localStorage' = IF Truthy(token)
                        THEN SetItem(localStorage, "token", token)
                        ELSE RemoveItem(localStorage, "token")
  /\ UNCHANGED << token, path, authRequests, userFetches, notice >>
  /\ UNCHANGED << fleetVars, plannerVars >>

\* the page is loaded again: App is constructed anew, requests in flight
\* are dropped, the effect of [token] runs after the first render
Reload ==
  /\ token' = GetItem(localStorage, "token")
  /\ tokenEffect' = TRUE
  /\ authRequests' = 0
  /\ userFetches' = IF Element(token', path).name = "Dashboard" THEN 1 ELSE 0
  /\ notice' = "none"
  /\ UNCHANGED << path, localStorage >>
  /\ UNCHANGED << fleetVars, plannerVars >>

NextApp ==
  \/ \E p \in Paths : Visit(p)
  \/ Redirect
  \/ handleLogin
  \/ \E t \in Tokens : LoginResolved(t)
  \/ LoginRejected
  \/ handleLogout
  \/ FetchUserResolved
  \/ FetchUserRejected
  \/ TokenEffect
  \/ Reload

SpecApp == Init /\ [][NextApp]_vars

\* ------------------------------------------------------ the tracking panel
\* {isTracking && activeRoute && ( ... )}
TrackingPanelShown == isTracking /\ activeRoute # NullRoute

\* Math.round(num / den) for num >= 0, den > 0: the nearest integer, halves up
Round(num, den) == (2 * num + den) \div (2 * den)

\* Math.round((routeProgress / (activeRoute.coordinates.length - 1)) * 100)
CompletionShown ==
  Round(routeProgress * 100, Len(activeRoute.coordinates) - 1)

\* Math.round(activeRoute.duration *
\*            (1 - routeProgress / activeRoute.coordinates.length))
EtaShown ==
  LET n == Len(activeRoute.coordinates)
  IN  Round(activeRoute.duration * (n - routeProgress), n)

\* positions={activeRoute.coordinates.map(coord => [coord[1], coord[0]])}:
\* the [lat, lng] pairs handed to the Polyline
PolylinePositions ==
  [i \in DOMAIN activeRoute.coordinates |->
     << activeRoute.coordinates[i][2], activeRoute.coordinates[i][1] >>]

\* ------------------------------------------------------------- properties

\* the step is a firing of timer s that emits a location
EmittingTick(s) ==
  /\ sessions[s].live /\ sessions'[s].live
  /\ sessions'[s].progress # sessions[s].progress
  /\ sessions'[s].status = "Active"

\* the step is the firing of timer s that runs its completion branch
CompletingTick(s) ==
  sessions[s].status = "Active" /\ sessions'[s].status = "Completed"

\* the locations a session has emitted are path[1..pos], in order
EmittedIsPathPrefix(sess) ==
  sess.emitted = [k \in 1..sess.pos |-> NewLoc(sess.route.coordinates[k + 1])]

C2_NoPersistAfterStop ==
  [][ afterStop =>
        \A s \in SessionIds :
           sessions[s].vid = selectedVehicleId =>
              /\ sessions'[s].puts = sessions[s].puts
              /\ sessions'[s].emitted = sessions[s].emitted ]_vars

\* C3: at most one live interval timer per vehicle id in every reachable state.
C3_OneActivePerVehicle ==
  \A a, b \in SessionIds :
     (sessions[a].live /\ sessions[b].live /\ sessions[a].vid = sessions[b].vid)
        => a = b

\* C4: the step that starts a session for a vehicle leaves every earlier
\* session of that vehicle cancelled, and the new one Active at index 0.
C4_StartSupersedes ==
  [][ Len(sessions') = Len(sessions) + 1 =>
        LET n == Len(sessions')
        IN  /\ sessions'[n].live /\ sessions'[n].pos = 0
            /\ \A s \in SessionIds :
                  sessions[s].vid = sessions'[n].vid => ~sessions'[s].live ]_vars

\* C5 as stated: the timer's progress counter never decreases and never
\* exceeds len(path)-1.
C5_CounterBounded ==
  [][ \A s \in SessionIds :
         sessions'[s].status # "Stopped" =>
            /\ sessions'[s].progress >= sessions[s].progress
            /\ sessions'[s].progress <= PathLen(s) - 1 ]_vars

\* C5 amended: within a session the index at which the path is read and that
\* is published never decreases and never exceeds len(path)-1; the progress
\* counter never decreases and is never behind that index (it is not bounded
\* by len(path)-1: the completion branch runs with progress = len(path)).
C5_IndexMonotoneBounded ==
  [][ \A s \in SessionIds :
         sessions'[s].status # "Stopped" =>
            /\ sessions'[s].pos >= sessions[s].pos
            /\ sessions'[s].pos <= PathLen(s) - 1
            /\ sessions'[s].progress >= sessions[s].progress
            /\ sessions'[s].pos <= sessions'[s].progress ]_vars

C5_Witness ==
  \E s \in SessionIds :
     sessions[s].pos = PathLen(s) - 1 /\ sessions[s].progress = PathLen(s)

\* C6 as stated: every firing of a live timer advances the index by exactly 1
\* and emits path[index].
C6_EveryTickEmits ==
  [][ \A s \in SessionIds :
         (sessions[s].live /\ sessions'[s].progress # sessions[s].progress
            /\ sessions'[s].status # "Stopped") =>
            /\ sessions'[s].pos = sessions[s].pos + 1
            /\ Len(sessions'[s].emitted) = Len(sessions[s].emitted) + 1 ]_vars

\* C6 amended: every firing of a timer whose index is below len(path)-1
\* advances the index by exactly 1 and emits path[index]; the firing at index
\* len(path)-1 emits nothing; so what a session has emitted is always exactly
\* path[1..index] in order, and all of path[1..L-1] once it is Completed.
C6_EmitsPathInOrder ==
  [][ \A s \in SessionIds :
         sessions'[s].status # "Stopped" =>
            /\ (sessions'[s].progress # sessions[s].progress
                  /\ sessions[s].pos < PathLen(s) - 1) =>
                  /\ sessions'[s].pos = sessions[s].pos + 1
                  /\ sessions'[s].emitted =
                       Append(sessions[s].emitted,
                              NewLoc(sessions[s].route.coordinates[sessions'[s].pos + 1]))
                  /\ vehicleLocations'[sessions[s].vid] =
                       NewLoc(sessions[s].route.coordinates[sessions'[s].pos + 1])
            /\ (sessions'[s].progress # sessions[s].progress
                  /\ sessions[s].pos = PathLen(s) - 1) =>
                  /\ sessions'[s].emitted = sessions[s].emitted
                  /\ vehicleLocations' = vehicleLocations
            /\ EmittedIsPathPrefix(sessions'[s])
            /\ sessions'[s].status = "Completed" =>
                  sessions'[s].pos = PathLen(s) - 1 ]_vars

C6_Witness ==
  \E s \in SessionIds :
     /\ PathLen(s) = 3
     /\ sessions[s].status = "Completed"
     /\ Len(sessions[s].emitted) = 2

\* C7: once a session is Completed or Stopped its timer never fires again,
\* its index never changes and it never becomes Active again.
C7_TerminalStatesFinal ==
  [][ \A s \in SessionIds :
         sessions[s].status \in {"Completed", "Stopped"} =>
            sessions'[s] = sessions[s] ]_vars

\* C8: handleStopTracking applied to the state it has just produced changes
\* nothing, and applied while no timer is tracked (the session is Completed
\* or Stopped) it leaves isTracking, the timer handle, activeRoute,
\* routeProgress, the vehicle locations and every timer as they were.
C8_StopIdempotent ==
  LET once == StopTracking(TrackingRecord)
  IN  /\ StopTracking(once) = once
      /\ trackingIntervalRef = NoTimer => once = TrackingRecord

C8_Witness ==
  /\ afterStop
  /\ \E s \in SessionIds : sessions[s].status = "Stopped"

\* C9: the rejection of any location PUT a timer has sent changes no timer
\* (status, index, liveness), in every reachable state, and no step that
\* records a rejection changes the tracking state; so the session goes on
\* ticking to completion.
C9_FailedWriteHarmless ==
  [][ /\ \A s \in SessionIds :
           \A k \in DOMAIN sessions[s].puts :
              PutCatch(sessions, s, sessions[s].puts[k]) = sessions
      /\ putRejected' # putRejected => UNCHANGED trackingState ]_vars

\* a PUT was rejected and a session that had sent PUTs has run to completion
C9_Witness ==
  /\ putRejected
  /\ \E s \in SessionIds :
        /\ sessions[s].status = "Completed"
        /\ ~sessions[s].live
        /\ Len(sessions[s].puts) = PathLen(s) - 1

\* C10: for each session and index the location PUT is called at most once,
\* and a rejected PUT is never sent again: the PUTs a session has sent are
\* exactly one for each index 1..pos, rejections or not.
C10_AtMostOnce ==
  \A s \in SessionIds :
     sessions[s].puts = [k \in 1..sessions[s].pos |-> k]

C10_Witness ==
  /\ putRejected
  /\ \E s \in SessionIds : Len(sessions[s].puts) >= 2

\* C11: whenever the tracking panel is shown, the ETA it shows is
\* duration * (1 - index/(len(path)-1)) rounded to minutes, and it is 0 when
\* the index is len(path)-1.
C11_EtaFollowsCompletion ==
  TrackingPanelShown =>
     LET n == Len(activeRoute.coordinates)
     IN  /\ EtaShown = Round(activeRoute.duration * (n - 1 - routeProgress), n - 1)
         /\ routeProgress = n - 1 => EtaShown = 0

\* C12: whenever the tracking panel is shown, activeRoute and routeProgress
\* are the route and the index of the tracked timer, the completion shown is
\* between 0% and 100%, and it is 100% exactly when that timer has taken its
\* vehicle to the last point of the path.
C12_CompletionOfRunningSession ==
  TrackingPanelShown =>
     /\ trackingIntervalRef \in SessionIds
     /\ LET sess == sessions[trackingIntervalRef]
            n    == Len(sess.route.coordinates)
        IN  /\ activeRoute = sess.route
            /\ routeProgress = sess.pos
            /\ CompletionShown \in 0..100
            /\ CompletionShown = 100 <=> sess.pos = n - 1

\* C13: the session of a vehicle is changed only by a step that concerns
\* that vehicle (the vehicle is the one selected after the step, or one of
\* its timers fires): starting, ticking, stopping or selecting another
\* vehicle leaves it as it was.
C13_VehiclesIndependent ==
  [][ \A s \in SessionIds :
         LET v == sessions[s].vid
         IN  (v # NoVehicle /\ sessions'[s] # sessions[s]) =>
                \/ selectedVehicleId' = v
                \/ \E b \in SessionIds :
                      /\ sessions[b].vid = v
                      /\ sessions'[b].progress # sessions[b].progress ]_vars

\* C14: while a session is Active (its timer is live before and after the
\* step), its vehicle's entry in vehicleLocations changes only in a step in
\* which that timer fires; a refresh of the vehicles list or
\* handleRefreshLocation leaves the entry as it was.
C14_OnlyTickMovesTrackedVehicle ==
  [][ \A s \in SessionIds :
         (/\ sessions[s].status = "Active" /\ sessions[s].live
          /\ sessions'[s].status = "Active" /\ sessions'[s].live
          /\ vehicleLocations'[sessions[s].vid] # vehicleLocations[sessions[s].vid])
            => sessions'[s].progress # sessions[s].progress ]_vars

\* C15: route points are (longitude, latitude) pairs: the k-th location a
\* timer has emitted and persisted has the latitude and the longitude of
\* path[k], and every position of the polyline drawn for activeRoute is the
\* pair (latitude, longitude) of its path point.
C15_LngLatOrder ==
  /\ \A s \in SessionIds :
        \A k \in DOMAIN sessions[s].emitted :
           /\ sessions[s].emitted[k].lat = RouteLat(k + 1)
           /\ sessions[s].emitted[k].lng = RouteLng(k + 1)
           /\ sessions[s].puts[k] = k
  /\ activeRoute # NullRoute =>
        \A i \in DOMAIN activeRoute.coordinates :
           PolylinePositions[i] = << RouteLat(i), RouteLng(i) >>

C15_Witness ==
  /\ activeRoute # NullRoute
  /\ \E s \in SessionIds :
        /\ Len(sessions[s].emitted) >= 2
        /\ vehicleLocations[sessions[s].vid] = [lat |-> RouteLat(3), lng |-> RouteLng(3)]

ReturnedRoutes == {Route(L) : L \in PathLengths}

\* C16: the route a timer follows and the route shown are the RoutePlan as
\* the route calculation returned it: no step changes the coordinates,
\* distance, duration or tolls of the route of a timer, and activeRoute is
\* either null or a RoutePlan as returned.
C16_RouteReadOnly ==
  [][ /\ \A s \in SessionIds :
           sessions'[s].route = sessions[s].route \/ sessions'[s].status = "Stopped"
      /\ \A s \in DOMAIN sessions' :
           sessions'[s].route \in ReturnedRoutes \/ sessions'[s].status = "Stopped"
      /\ activeRoute' \in ReturnedRoutes \cup {NullRoute} ]_vars

C16_Witness ==
  /\ activeRoute = Route(MaxLen)
  /\ \E s \in SessionIds :
        /\ sessions[s].status = "Completed"
        /\ sessions[s].route = Route(MaxLen)
  /\ \E s \in SessionIds : sessions[s].status = "Stopped"

\* C17: every response of the route calculation that the planner holds has
\* exactly 3 RoutePlans, one of each route_type fastest, economy and scenic,
\* so the route_type keys of the route cards are distinct.
C17_ThreeDistinctRouteTypes ==
  routes # << >> =>
     /\ Len(routes) = 3
     /\ {routes[i].route_type : i \in DOMAIN routes} = {"fastest", "economy", "scenic"}
     /\ \A i, j \in DOMAIN routes :
           routes[i].route_type = routes[j].route_type => i = j

C17_Witness ==
  /\ RoutesShown
  /\ selectedRoute = routes[3]
  /\ selectedRoute.route_type = "scenic"

\* C18: for every RoutePlan the planner holds, estimated_cost is
\* fuel_consumption * unit_price(fuel_type) + the sum of its toll amounts
\* rounded to 2 decimals, halves up, and it is not negative.
C18_EstimatedCostRounded ==
  routes # << >> =>
     \A i \in DOMAIN routes :
        LET plan  == routes[i]
            exact == plan.fuel_consumption * UnitPrice(routesFor.fuel)
                       + 1000 * SumTolls(plan.tolls)
        IN  /\ plan.estimated_cost * 1000 - 500 <= exact
            /\ exact < plan.estimated_cost * 1000 + 500
            /\ plan.estimated_cost >= 0

\* a response in which one cost was rounded up and one was rounded down
C18_Witness ==
  /\ routes # << >>
  /\ \E i \in DOMAIN routes :
        (routes[i].fuel_consumption * UnitPrice(routesFor.fuel)) % 1000 >= 500
  /\ \E i \in DOMAIN routes :
        (routes[i].fuel_consumption * UnitPrice(routesFor.fuel)) % 1000 \in 1..499

\* C19: an invocation of handleCalculate sends the route calculation only
\* after both addresses were geocoded; when its geocoding fails it ends
\* with the failure toast, no route calculation in flight, and routes,
\* selectedRoute, start_coords and end_coords as they were.
C19_GeocodingFailureKeepsState ==
  [][ \A c \in DOMAIN calls :
         /\ (calls[c].phase = "geocoding" /\ c \in DOMAIN calls'
               /\ calls'[c].phase = "calculating") =>
               /\ Geocode(calls[c].start_address) # NoCoords
               /\ Geocode(calls[c].end_address) # NoCoords
         /\ (calls[c].phase = "geocoding" /\ Len(calls') < Len(calls)) =>
               /\ toast' = "Could not find one or more locations"
               /\ \A d \in DOMAIN calls' : calls'[d].phase # "calculating"
               /\ routes' = routes
               /\ selectedRoute' = selectedRoute
               /\ formData'.start_coords = formData.start_coords
               /\ formData'.end_coords = formData.end_coords ]_vars

\* a geocoding failure after an earlier calculation had succeeded
C19_Witness ==
  /\ toast = "Could not find one or more locations"
  /\ formData.end_address = "Nowhere"
  /\ RoutesShown
  /\ selectedRoute = routes[2]
  /\ calls = << >>

C21_TracksFastestRoute ==
  /\ \A s \in SessionIds :
        sessions[s].status # "Stopped" => sessions[s].route.route_type = "fastest"
  /\ activeRoute # NullRoute => activeRoute.route_type = "fastest"

\* C22: in every reachable state in which isTracking is false, no interval
\* timer is live, so no timer can update or persist a location while the
\* component shows tracking as stopped.
C22_NoTimerWhileStopped ==
  ~isTracking => \A s \in SessionIds : ~sessions[s].live

\* C23: in every reachable state, every live timer updates and persists the
\* location of the vehicle that is selected.
C23_TimerOfSelectedVehicle ==
  \A s \in SessionIds :
     sessions[s].live => sessions[s].vid = selectedVehicleId

\* C24: every step that selects a vehicle (it changes the selected vehicle
\* or removes the route shown) leaves isTracking false, activeRoute null,
\* routeProgress 0 and the timer handle null, has cancelled the timer the
\* handle held, and changes no entry of vehicleLocations.
C24_SelectResetsTracking ==
  [][ (\/ selectedVehicleId' # selectedVehicleId
       \/ activeRoute # NullRoute /\ activeRoute' = NullRoute) =>
        /\ isTracking' = FALSE
        /\ activeRoute' = NullRoute
        /\ routeProgress' = 0
        /\ trackingIntervalRef' = NoTimer
        /\ trackingIntervalRef \in SessionIds =>
              ~sessions'[trackingIntervalRef].live
        /\ vehicleLocations' = vehicleLocations ]_vars

\* another vehicle was selected while a timer had moved the tracked one
C24_Witness ==
  /\ Len(sessions) = 1
  /\ sessions[1].status = "Stopped"
  /\ activeRoute = NullRoute
  /\ ~isTracking
  /\ \E v \in Vehicles : v # selectedVehicleId /\ vehicleLocations[v] # HomeLoc(v)

\* C25: a step in which a route request ends without a timer being created
\* (the request has failed) leaves isTracking, activeRoute, routeProgress,
\* vehicleLocations, the timer handle and every timer as they were; and
\* while no vehicle is selected no step sends a request or creates a timer.
C25_FailedStartChangesNothing ==
  [][ /\ (/\ SumPending(pending', NumVehicles) < SumPending(pending, NumVehicles)
          /\ Len(sessions') = Len(sessions)) =>
            /\ startFailed'
            /\ UNCHANGED << isTracking, activeRoute, routeProgress,
                            vehicleLocations, trackingIntervalRef, sessions >>
      /\ selectedVehicleId = NoVehicle =>
            /\ pending' = pending
            /\ sessions' = sessions
            /\ UNCHANGED << isTracking, activeRoute, routeProgress,
                            vehicleLocations >> ]_vars

\* a request has just failed while a timer started by another request runs
C25_Witness ==
  /\ startFailed
  /\ isTracking
  /\ \E s \in SessionIds : sessions[s].live /\ sessions[s].pos >= 1

\* C26: once the component is unmounted no timer is live and no timer sends
\* a further location PUT.
C26_NoTimerAfterUnmount ==
  [][ ~mounted' =>
        /\ \A s \in DOMAIN sessions' : ~sessions'[s].live
        /\ ~mounted =>
              \A s \in SessionIds : sessions'[s].puts = sessions[s].puts ]_vars

\* C27: the Dashboard is on screen only with a token and the Login page only
\* without one; without a token / and /dashboard navigate to /login, with a
\* token / and /login navigate to /dashboard, so once the navigation is done
\* the path is /dashboard exactly with a token; and after a logout or a
\* failed user fetch the token is null and the Dashboard is gone.
C27_RouteGuard ==
  LET e == Element(token, path)
  IN  /\ Page = "Dashboard" => token # Null
      /\ Page = "Login" => token = Null
      /\ (token = Null /\ path \in {"/", "/dashboard"}) =>
            e = [kind |-> "navigate", name |-> "/login"]
      /\ (token # Null /\ path \in {"/", "/login"}) =>
            e = [kind |-> "navigate", name |-> "/dashboard"]
      /\ (e.kind = "page" /\ path # "/other") =>
            /\ path = "/dashboard" <=> token # Null
            /\ path = "/login" <=> token = Null
      /\ notice \in {"Logged out successfully", "Failed to fetch user data"} =>
            token = Null /\ Page # "Dashboard"

\* back on the Login page after a user fetch has failed
C27_Witness ==
  /\ notice = "Failed to fetch user data"
  /\ Page = "Login"
  /\ ~tokenEffect
  /\ localStorage = {}

\* C28: whenever the effect of the last token change has run, localStorage
\* holds the key 'token' with the token when the token is not null and no
\* key 'token' when it is null, so that the token a reload starts with is
\* the current one.
C28_StoreMirrorsToken ==
  ~tokenEffect =>
     /\ token # Null => << "token", token >> \in localStorage
     /\ token = Null => \A p \in localStorage : p[1] # "token"
     /\ GetItem(localStorage, "token") = token
     /\ Cardinality({p \in localStorage : p[1] = "token"}) <= 1

\* logged in as t2 after a reload had restored t1, the store following
C28_Witness ==
  /\ ~tokenEffect
  /\ token = "t2"
  /\ localStorage = {<< "token", "t2" >>}
  /\ Page = "Dashboard"

\* C29: whenever the route options are displayed and no calculation is in
\* progress, routes is the result of the calculation for the stored
\* start_coords and end_coords, and selectedRoute is one of routes.
C29_RoutesOfStoredCoords ==
  (RoutesShown /\ calls = << >>) =>
     /\ routes = CalculateRoutes(LatLng(formData.start_coords),
                                 LatLng(formData.end_coords), routesFor.fuel)
     /\ \E i \in DOMAIN routes : selectedRoute = routes[i]

\* the toasts with which an invocation of handleCalculate ends
OutcomeToasts ==
  { "Please select a vehicle", "Please enter both start and end locations",
    "Could not find one or more locations", "Failed to calculate routes",
    "Routes calculated successfully" }

\* C30: isLoading is true exactly while an invocation of handleCalculate is
\* in progress and isGeocoding exactly while it is geocoding, both are false
\* after every outcome, isGeocoding implies isLoading, and at most one
\* invocation, so at most one route calculation, is in flight.
C30_LoadingWhileCalculating ==
  /\ isLoading <=> calls # << >>
  /\ isGeocoding <=> \E c \in DOMAIN calls : calls[c].phase = "geocoding"
  /\ isGeocoding => isLoading
  /\ toast \in OutcomeToasts => ~isLoading /\ ~isGeocoding
  /\ Len(calls) <= 1

\* a route calculation has failed after an earlier one had succeeded
C30_Witness ==
  /\ toast = "Failed to calculate routes"
  /\ ~isLoading
  /\ calls = << >>
  /\ routes # << >>

====
